---------------------------- MODULE Spec2Model ----------------------------
(***************************************************************************)
(* A model of the job bodies and flow makers of atomate2:                  *)
(*   - the Materials Project flow makers (vasp/flows/mp.py),               *)
(*   - the common jobs remove_workflow_files and                           *)
(*     retrieve_structure_from_materials_project (common/jobs/utils.py),   *)
(*   - the QChem drone (qchem/drones.py),                                  *)
(*   - the finite-difference job FiniteDifferenceMaker (vasp/jobs/defect). *)
(* The programs are independent of one another; each has its own           *)
(* variables, its own initial condition and its own specification.         *)
(***************************************************************************)
EXTENDS Integers, Sequences, FiniteSets, TLC

VARIABLES
    \* ---- flow makers (vasp/flows/mp.py)
    mk_self,      \* the maker dataclass instance: its class and its fields
    mk_args,      \* the last call of make: the maker as it was, structure, prev_dir
    mk_flow,      \* what make returned (NoFlow before the call)
    \* ---- remove_workflow_files (common/jobs/utils.py)
    fs,           \* the file system: path -> "absent" | "file" | "dir"
    fs0,          \* the file system as it was before the call
    rm_args,      \* directories, file_names, allow_zpath
    rm_ret,       \* the returned list (NotCalled before the call)
    \* ---- QChemDrone (qchem/drones.py)
    dr_kwargs,    \* self.task_document_kwargs
    dr_env,       \* the environment: cwd, and what TaskDoc.from_directory does
    dr_call,      \* the pending call: method and arguments
    dr_out,       \* the outcome of the call: returned value or raised exception
    dr_log,       \* what logger.error was given
    \* ---- retrieve_structure_from_materials_project (common/jobs/utils.py)
    mp_db,        \* the Materials Project database behind MPRester
    mp_args,      \* material_id_or_task_id, use_task_id, reset_magnetic_moments
    mp_out,       \* the outcome: a Response or a raised exception
    \* ---- FiniteDifferenceMaker.make (vasp/jobs/defect.py)
    fd_dirs,      \* distorted_calc_dirs, the argument
    fd_remote,    \* the calculation directories: dir -> its WAVECAR.gz or Missing
    fd_cwd,       \* the files of the current directory: name -> content
    fd_i,         \* the loop index
    fd_pc,        \* the position in make
    fd_runs,      \* one record per run_vasp call, in order
    \* ---- the saved Lobster JSONs (lobster/schemas.py)
    lb_dir,       \* what the calculation directory holds
    lb_files,     \* the saved files: name -> gzipped JSON list or NoFile
    lb_call,      \* the last call of read_saved_json: filename, pymatgen_objs, query
    lb_out,       \* what it returned
    \* ---- running the MP24 flow
    ex_flow,      \* the flow MP24DoubleRelaxStaticMaker.make returned
    ex_state,     \* job -> "none" | "waiting" | "done" | "failed"
    ex_fs,        \* the files of the jobs' directories
    ex_copied,    \* VASP job -> the files it copied from the job before it
    ex_removed    \* what the cleanup job returned

mkVars == <<mk_self, mk_args, mk_flow>>
rmVars == <<fs, fs0, rm_args, rm_ret>>
drVars == <<dr_kwargs, dr_env, dr_call, dr_out, dr_log>>
mpVars == <<mp_db, mp_args, mp_out>>
fdVars == <<fd_dirs, fd_remote, fd_cwd, fd_i, fd_pc, fd_runs>>
lbVars == <<lb_dir, lb_files, lb_call, lb_out>>
exVars == <<ex_flow, ex_state, ex_fs, ex_copied, ex_removed>>
vars == <<mkVars, rmVars, drVars, mpVars, fdVars, lbVars, exVars>>

None == "None"

\* The sequences over S of length at most n.
SeqUpTo(S, n) == UNION {[1..k -> S] : k \in 0..n}

\* The elements of a sequence.
Range(s) == {s[k] : k \in 1..Len(s)}

-----------------------------------------------------------------------------
(***************************************************************************)
(* Flow makers.                                                            *)
(***************************************************************************)

NoFlow == [name |-> "no flow"]

Structures == {"Si", "Fe2O3"}
PrevDirs == {None, "host:/prev"}

\* An output reference: the output of the job uuid, or an attribute of it.
Ref(uuid) == [uuid |-> uuid, attr |-> ""]
Attr(ref, a) == [uuid |-> ref.uuid, attr |-> a]

\* DoubleRelaxMaker.make: relax_maker1 is optional, relax_maker2 is not; the
\* flow's output is the second relaxation's.
DoubleRelaxMaker_make(relax_maker, structure, prev_dir) ==
    [kind |-> "flow",
     maker |-> relax_maker.name,
     structure |-> structure,
     prev_dir |-> prev_dir,
     jobs |-> IF relax_maker.relax_maker1 = None
                THEN <<"relax2">> ELSE <<"relax1", "relax2">>,
     output |-> Ref("relax2")]

\* BaseVaspMaker.make of a static maker: one job, whose inputs are the
\* arguments (here references into the relax flow's output).
StaticMaker_make(static_maker, structure, prev_dir) ==
    [kind |-> "job",
     maker |-> static_maker,
     uuid |-> "static",
     structure |-> structure,
     prev_dir |-> prev_dir,
     output |-> Ref("static")]

\* _recursive_get_dir_names: the dir_name reference of every job, nested
\* flows flattened in order.
RecursiveGetDirNames(jobs) ==
    LET namesOf(j) == IF j.kind = "flow"
                        THEN [k \in 1..Len(j.jobs) |-> Attr(Ref(j.jobs[k]), "dir_name")]
                        ELSE <<Attr(j.output, "dir_name")>>
        F[k \in 0..Len(jobs)] == IF k = 0 THEN <<>> ELSE F[k-1] \o namesOf(jobs[k])
    IN F[Len(jobs)]

\* The job created by calling the @job-decorated remove_workflow_files.
CleanupJob(directories, file_names, allow_zpath) ==
    [kind |-> "job",
     maker |-> "remove_workflow_files",
     uuid |-> "cleanup",
     directories |-> directories,
     file_names |-> file_names,
     allow_zpath |-> allow_zpath,
     output |-> Ref("cleanup")]

\* Python truthiness of a maker field: None is false, a Maker instance true.
Truthy(x) == x # None

\* MPGGADoubleRelaxStaticMaker.make
MPGGA_make(self, structure, prev_dir) ==
    LET relax_flow == DoubleRelaxMaker_make(self.relax_maker, structure, prev_dir)
        output0 == relax_flow.output
        jobs0 == <<relax_flow>>
    IN IF Truthy(self.static_maker)
         THEN LET static_job == StaticMaker_make(self.static_maker,
                                                 Attr(output0, "structure"),
                                                 Attr(output0, "dir_name"))
              IN [jobs |-> jobs0 \o <<static_job>>,
                  output |-> static_job.output, name |-> self.name]
         ELSE [jobs |-> jobs0, output |-> output0, name |-> self.name]

\* A bug the static step could have: the static job appended, the flow's
\* output left the relax flow's.
MPMetaGGA_make_OutputNotUpdated(self, structure, prev_dir) ==
    LET relax_flow == DoubleRelaxMaker_make(self.relax_maker, structure, prev_dir)
        output0 == relax_flow.output
        jobs0 == <<relax_flow>>
    IN IF Truthy(self.static_maker)
         THEN LET static_job == StaticMaker_make(self.static_maker,
                                                 Attr(output0, "structure"),
                                                 Attr(output0, "dir_name"))
              IN [jobs |-> jobs0 \o <<static_job>>, output |-> output0, name |-> self.name]
         ELSE [jobs |-> jobs0, output |-> output0, name |-> self.name]

\* MPMetaGGADoubleRelaxStaticMaker.make
MPMetaGGA_make(self, structure, prev_dir) ==
    LET relax_flow == DoubleRelaxMaker_make(self.relax_maker, structure, prev_dir)
        output0 == relax_flow.output
        jobs0 == <<relax_flow>>
    IN IF Truthy(self.static_maker)
         THEN LET static_job == StaticMaker_make(self.static_maker,
                                                 Attr(output0, "structure"),
                                                 Attr(output0, "dir_name"))
              IN [jobs |-> jobs0 \o <<static_job>>,
                  output |-> static_job.output, name |-> self.name]
         ELSE [jobs |-> jobs0, output |-> output0, name |-> self.name]

\* An optional sequence (Sequence[str] | None): None, or the sequence val.
NoneSeq == [none |-> TRUE, val |-> <<>>]
Some(s) == [none |-> FALSE, val |-> s]

\* self.clean_files or []: None and the empty sequence are both falsy.
OrEmpty(clean_files) ==
    IF clean_files.none \/ Len(clean_files.val) = 0 THEN Some(<<>>) ELSE clean_files

\* A bug the cleanup step could have: the flow's output taken from the last job.
MP24_make_OutputOfLast(self, structure, prev_dir) ==
    LET relax_flow == DoubleRelaxMaker_make(self.relax_maker, structure, prev_dir)
        static_job == StaticMaker_make(self.static_maker,
                                       Attr(relax_flow.output, "structure"),
                                       Attr(relax_flow.output, "dir_name"))
        jobs0 == <<relax_flow, static_job>>
        clean_files == OrEmpty(self.clean_files)
        jobs1 == IF Len(clean_files.val) > 0
                   THEN jobs0 \o <<CleanupJob(RecursiveGetDirNames(jobs0), clean_files.val, TRUE)>>
                   ELSE jobs0
    IN [flow |-> [jobs |-> jobs1, output |-> jobs1[Len(jobs1)].output, name |-> self.name],
        self |-> [self EXCEPT !.clean_files = clean_files]]

\* A bug the cleanup step could have: the cleanup job added unconditionally.
MP24_make_AlwaysClean(self, structure, prev_dir) ==
    LET relax_flow == DoubleRelaxMaker_make(self.relax_maker, structure, prev_dir)
        static_job == StaticMaker_make(self.static_maker,
                                       Attr(relax_flow.output, "structure"),
                                       Attr(relax_flow.output, "dir_name"))
        jobs0 == <<relax_flow, static_job>>
        clean_files == OrEmpty(self.clean_files)
    IN [flow |-> [jobs |-> jobs0 \o <<CleanupJob(RecursiveGetDirNames(jobs0), clean_files.val, TRUE)>>,
                  output |-> static_job.output, name |-> self.name],
        self |-> [self EXCEPT !.clean_files = clean_files]]

\* A bug the cleanup step could have: the directories collected before the
\* static job joins the list of jobs.
MP24_make_CleanupOfRelaxOnly(self, structure, prev_dir) ==
    LET relax_flow == DoubleRelaxMaker_make(self.relax_maker, structure, prev_dir)
        static_job == StaticMaker_make(self.static_maker,
                                       Attr(relax_flow.output, "structure"),
                                       Attr(relax_flow.output, "dir_name"))
        jobs0 == <<relax_flow, static_job>>
        clean_files == OrEmpty(self.clean_files)
        jobs1 == IF Len(clean_files.val) > 0
                   THEN jobs0 \o <<CleanupJob(RecursiveGetDirNames(<<relax_flow>>),
                                              clean_files.val, TRUE)>>
                   ELSE jobs0
    IN [flow |-> [jobs |-> jobs1, output |-> static_job.output, name |-> self.name],
        self |-> [self EXCEPT !.clean_files = clean_files]]

\* MP24DoubleRelaxStaticMaker.make: the flow it returns and the maker after
\* the call (make assigns self.clean_files).
MP24_make(self, structure, prev_dir) ==
    LET relax_flow == DoubleRelaxMaker_make(self.relax_maker, structure, prev_dir)
        static_job == StaticMaker_make(self.static_maker,
                                       Attr(relax_flow.output, "structure"),
                                       Attr(relax_flow.output, "dir_name"))
        jobs0 == <<relax_flow, static_job>>
        clean_files == OrEmpty(self.clean_files)
        jobs1 == IF Len(clean_files.val) > 0
                   THEN jobs0 \o <<CleanupJob(RecursiveGetDirNames(jobs0), clean_files.val, TRUE)>>
                   ELSE jobs0
    IN [flow |-> [jobs |-> jobs1, output |-> static_job.output, name |-> self.name],
        self |-> [self EXCEPT !.clean_files = clean_files]]

\* The names the clean_files field may hold.
FileNames == {"WAVECAR", "CHGCAR"}
MaxCleanFiles == 2

RelaxMakers(name, pre) == {[name |-> name, relax_maker1 |-> r1] : r1 \in {None, pre}}

\* The maker instances: the dataclass defaults and the values their fields'
\* types allow (static_maker is optional for the GGA and meta-GGA makers only).
MPGGAMakers ==
    {[cls |-> "MPGGADoubleRelaxStaticMaker", name |-> "MP GGA relax",
      relax_maker |-> rm, static_maker |-> sm, clean_files |-> NoneSeq] :
        rm \in RelaxMakers("MP GGA double relax", "MPGGARelaxMaker"),
        sm \in {None, "MPGGAStaticMaker"}}
MPMetaGGAMakers ==
    {[cls |-> "MPMetaGGADoubleRelaxStaticMaker", name |-> "MP meta-GGA relax",
      relax_maker |-> rm, static_maker |-> sm, clean_files |-> NoneSeq] :
        rm \in RelaxMakers("MP meta-GGA double relax", "MPPreRelaxMaker"),
        sm \in {None, "MPMetaGGAStaticMaker"}}
MP24Makers ==
    {[cls |-> "MP24DoubleRelaxStaticMaker", name |-> "MP24 r2SCAN workflow",
      relax_maker |-> rm, static_maker |-> "MP24StaticMaker", clean_files |-> cf] :
        rm \in RelaxMakers("MP24 double relax", "MP24PreRelaxMaker"),
        cf \in {NoneSeq} \cup {Some(q) : q \in SeqUpTo(FileNames, MaxCleanFiles)}}

\* clean_files: Sequence[str] | None = ("WAVECAR",)
DefaultCleanFiles == Some(<<"WAVECAR">>)

MkInit ==
    /\ mk_self \in MPGGAMakers \cup MPMetaGGAMakers \cup MP24Makers
    /\ mk_args = [self |-> mk_self, structure |-> None, prev_dir |-> None]
    /\ mk_flow = NoFlow

MakeMPGGA ==
    /\ mk_self.cls = "MPGGADoubleRelaxStaticMaker"
    /\ \E structure \in Structures, prev_dir \in PrevDirs :
         /\ mk_args' = [self |-> mk_self, structure |-> structure, prev_dir |-> prev_dir]
         /\ mk_flow' = MPGGA_make(mk_self, structure, prev_dir)
    /\ UNCHANGED mk_self

MakeMPMetaGGA ==
    /\ mk_self.cls = "MPMetaGGADoubleRelaxStaticMaker"
    /\ \E structure \in Structures, prev_dir \in PrevDirs :
         /\ mk_args' = [self |-> mk_self, structure |-> structure, prev_dir |-> prev_dir]
         /\ mk_flow' = MPMetaGGA_make(mk_self, structure, prev_dir)
    /\ UNCHANGED mk_self

MakeMP24 ==
    /\ mk_self.cls = "MP24DoubleRelaxStaticMaker"
    /\ \E structure \in Structures, prev_dir \in PrevDirs :
         LET r == MP24_make(mk_self, structure, prev_dir)
         IN /\ mk_args' = [self |-> mk_self, structure |-> structure, prev_dir |-> prev_dir]
            /\ mk_flow' = r.flow
            /\ mk_self' = r.self

\* The job at position k of the returned flow is the flow the relax sub-maker
\* built from the arguments of the call.
IsRelaxFlowOfCall(j) ==
    /\ j.kind = "flow"
    /\ j.maker = mk_args.self.relax_maker.name
    /\ j.structure = mk_args.structure
    /\ j.prev_dir = mk_args.prev_dir

\* The job is the static job, built from the output of the relax flow r.
IsStaticJobAfter(j, r) ==
    /\ j.kind = "job"
    /\ j.maker = mk_args.self.static_maker
    /\ j.structure = Attr(r.output, "structure")
    /\ j.prev_dir = Attr(r.output, "dir_name")

IsCleanupJob(j) == j.kind = "job" /\ j.maker = "remove_workflow_files"

Made(cls) == mk_flow # NoFlow /\ mk_args.self.cls = cls

C2_CleanupIffNonEmpty ==
    Made("MP24DoubleRelaxStaticMaker") =>
        LET cf == mk_args.self.clean_files
            nonEmpty == ~cf.none /\ Len(cf.val) > 0
            cleanups == {k \in 1..Len(mk_flow.jobs) : IsCleanupJob(mk_flow.jobs[k])}
        IN /\ (cleanups # {}) <=> nonEmpty
           /\ nonEmpty => cleanups = {3} /\ Len(mk_flow.jobs) = 3
           /\ ~nonEmpty => Len(mk_flow.jobs) = 2
           /\ IsRelaxFlowOfCall(mk_flow.jobs[1])
           /\ IsStaticJobAfter(mk_flow.jobs[2], mk_flow.jobs[1])
           /\ mk_flow.output = mk_flow.jobs[2].output

C2_Witness ==
    /\ Made("MP24DoubleRelaxStaticMaker")
    /\ mk_args.self.clean_files.none
    /\ Len(mk_flow.jobs) = 2
    /\ mk_self.clean_files = Some(<<>>)

-----------------------------------------------------------------------------
(***************************************************************************)
(* remove_workflow_files.                                                  *)
(***************************************************************************)

\* A path is <<directory, file name, extension>>; os.path.join(job_dir, file)
\* is the path with no extension.
Join(job_dir, file) == <<job_dir, file, "">>

\* The directories of the file system, by absolute path.
Dirs == {"/a", "/b"}
\* The directories the jobs of a flow run in.
JobDirs == {"/relax1", "/relax2", "/static"}
\* The extensions a stored file may carry in the model's file systems.
StoredExts == {"", ".gz"}
Paths == Dirs \X FileNames \X StoredExts

\* dir_name values: token sequences, "host:/a" being <<"host", ":", "/a">>.
\* "b" is relative to the working directory "/".
DirNames == {<<"/a">>, <<"host", ":", "/a">>, <<"b">>}

\* dir_name.split(":")[-1]: what follows the last colon.
SplitLast(dir_name) ==
    LET colons == {k \in 1..Len(dir_name) : dir_name[k] = ":"}
        last == IF colons = {} THEN 0 ELSE CHOOSE k \in colons : \A j \in colons : j <= k
    IN SubSeq(dir_name, last + 1, Len(dir_name))

\* os.path.abspath of a one-component path, the working directory being "/".
Abspath(path) ==
    IF Len(path) = 0 THEN "/"
    ELSE IF path[1] \in Dirs \cup JobDirs THEN path[1]
    ELSE IF path[1] = "b" THEN "/b"
    ELSE "/"

\* os.path.exists and os.path.isfile
Exists(f, path) == path \in DOMAIN f /\ f[path] # "absent"
IsFile(f, path) == path \in DOMAIN f /\ f[path] = "file"

\* monty.os.path.zpath: the first of filename, filename.gz, ... that exists,
\* and filename itself when none does.
ZExts == <<"", ".gz", ".GZ", ".bz2", ".BZ2", ".z", ".Z">>
zpath(f, filename) ==
    LET hits == {k \in 1..Len(ZExts) : Exists(f, <<filename[1], filename[2], ZExts[k]>>)}
    IN IF hits = {} THEN filename
       ELSE <<filename[1], filename[2], ZExts[CHOOSE k \in hits : \A j \in hits : k <= j]>>

\* A bug the loop body could have: the name recorded without the isfile test.
RemoveOne_AppendAlways(st, job_dir, file, allow_zpath) ==
    LET file_name0 == Join(job_dir, file)
        file_name == IF allow_zpath THEN zpath(st.fs, file_name0) ELSE file_name0
    IN [fs |-> IF IsFile(st.fs, file_name)
                 THEN [st.fs EXCEPT ![file_name] = "absent"] ELSE st.fs,
        removed |-> Append(st.removed, file_name)]

\* The body of the inner loop of remove_workflow_files, on the state
\* st = [fs, removed].
RemoveOne(st, job_dir, file, allow_zpath) ==
    LET file_name0 == Join(job_dir, file)
        file_name == IF allow_zpath THEN zpath(st.fs, file_name0) ELSE file_name0
    IN IF IsFile(st.fs, file_name)
         THEN [fs |-> [st.fs EXCEPT ![file_name] = "absent"],
               removed |-> Append(st.removed, file_name)]
         ELSE st

\* remove_workflow_files: for job_dir in abs_paths: for file in file_names.
remove_workflow_files(f, directories, file_names, allow_zpath) ==
    LET abs_paths == [k \in 1..Len(directories) |-> Abspath(SplitLast(directories[k]))]
        m == Len(file_names)
        n == Len(abs_paths) * m
        Loop[k \in 0..n] ==
            IF k = 0 THEN [fs |-> f, removed |-> <<>>]
            ELSE RemoveOne(Loop[k-1], abs_paths[((k-1) \div m) + 1],
                           file_names[((k-1) % m) + 1], allow_zpath)
    IN Loop[n]

MaxDirList == 2
MaxFileNames == 2

\* The file systems a call may find: a WAVECAR name may be a file or a
\* directory, plain and gzipped copies may both be there.
InitialFileSystems ==
    {f \in [Paths -> {"absent", "file", "dir"}] :
        \A p \in Paths :
            /\ f[p] = "dir" => p[2] = "WAVECAR" /\ p[3] = ""
            /\ (p[2] = "CHGCAR" /\ p[3] = ".gz") => f[p] = "absent"}

RmInit ==
    /\ fs \in InitialFileSystems
    /\ fs0 = fs
    /\ rm_args = [directories |-> <<>>, file_names |-> <<>>, allow_zpath |-> TRUE]
    /\ rm_ret = [called |-> FALSE, removed |-> <<>>]

RemoveWorkflowFiles ==
    /\ ~rm_ret.called
    /\ \E directories \in SeqUpTo(DirNames, MaxDirList),
          file_names \in SeqUpTo(FileNames, MaxFileNames),
          allow_zpath \in BOOLEAN :
         LET r == remove_workflow_files(fs, directories, file_names, allow_zpath)
         IN /\ rm_args' = [directories |-> directories, file_names |-> file_names,
                           allow_zpath |-> allow_zpath]
            /\ fs0' = fs
            /\ fs' = r.fs
            /\ rm_ret' = [called |-> TRUE, removed |-> r.removed]

\* The directories the call lists, as absolute paths.
ListedDirs == {Abspath(SplitLast(d)) : d \in Range(rm_args.directories)}

\* C4: after remove_workflow_files with allow_zpath True, for every listed
\* directory d and every name f of file_names, neither d/f nor d/f.gz is a
\* file, also when both were there before the call.
C4_PlainAndGzippedRemoved ==
    (rm_ret.called /\ rm_args.allow_zpath) =>
        \A d \in ListedDirs, f \in Range(rm_args.file_names) :
            ~IsFile(fs, <<d, f, "">>) /\ ~IsFile(fs, <<d, f, ".gz">>)

\* C5: a path is in the returned list if and only if it was a regular file
\* before the call and the call deleted it; nothing else changes, no path is
\* listed twice, and a named file that is missing is skipped.
C5_ReturnsRemovedFiles ==
    rm_ret.called =>
        /\ \A p \in Paths :
             (p \in Range(rm_ret.removed)) <=> (IsFile(fs0, p) /\ ~Exists(fs, p))
        /\ Range(rm_ret.removed) \subseteq Paths
        /\ \A p \in Paths : p \notin Range(rm_ret.removed) => fs[p] = fs0[p]
        /\ Cardinality(Range(rm_ret.removed)) = Len(rm_ret.removed)

\* A call that removed a file and skipped a name that was missing.
C5_Witness ==
    /\ rm_ret.called
    /\ Len(rm_ret.removed) >= 1
    /\ \E d \in ListedDirs, f \in Range(rm_args.file_names) :
         ~Exists(fs0, <<d, f, "">>) /\ ~Exists(fs0, <<d, f, ".gz">>)

-----------------------------------------------------------------------------
(***************************************************************************)
(* QChemDrone.                                                             *)
(***************************************************************************)

\* Exceptions are records: the class and the directory whose parse raised.
NoExc == [cls |-> None, dir |-> None]
\* Classes derived from Exception, and classes derived from BaseException only.
ExceptionClasses == {"ValueError", "FileNotFoundError"}
BaseOnlyClasses == {"KeyboardInterrupt"}
IsException(e) == e.cls \in ExceptionClasses

\* The outcome of a call: nothing yet, a returned value (a list, or a
\* document held as a one-element list), or a raised exception.
NoOut == [kind |-> "none", value |-> <<>>, exc |-> NoExc]
Return(v) == [kind |-> "return", value |-> v, exc |-> NoExc]
Raise(e) == [kind |-> "raise", value |-> <<>>, exc |-> e]

CalcDirs == {"/calc1", "/calc2"}
KwargSets == {"{}", "{validate_lot: False}"}

\* TaskDoc.from_directory: the document of a directory under the keyword
\* arguments, or the exception the parse of that directory raises.
TaskDoc_from_directory(env, path, kwargs) ==
    IF env.parse[path] = "ok"
      THEN Return(<<[dir_name |-> path, kwargs |-> kwargs]>>)
      ELSE Raise([cls |-> env.parse[path], dir |-> path])

\* A bug assimilate could have: the error logged and swallowed.
QChemDrone_assimilate_Swallow(kwargs, env, path) ==
    LET path1 == IF path = None THEN env.cwd ELSE path
        r == TaskDoc_from_directory(env, path1, kwargs)
    IN IF r.kind = "raise" /\ IsException(r.exc)
         THEN [out |-> Return(<<>>), log |-> <<[path |-> path1, exc |-> r.exc]>>]
         ELSE [out |-> r, log |-> <<>>]

\* QChemDrone.assimilate: the outcome and what the call logged.  The handler
\* is "except Exception": it logs and re-raises; an exception that is not an
\* Exception passes through it.
QChemDrone_assimilate(kwargs, env, path) ==
    LET path1 == IF path = None THEN env.cwd ELSE path
        r == TaskDoc_from_directory(env, path1, kwargs)
    IN IF r.kind = "raise" /\ IsException(r.exc)
         THEN [out |-> Raise(r.exc), log |-> <<[path |-> path1, exc |-> r.exc]>>]
         ELSE [out |-> r, log |-> <<>>]

\* The names a walked directory may hold (sub-directories and files), and
\* those the glob mol.qout* matches.
SubdirNames == {"mol.qout.*", "sub"}
FileEntryNames == {"mol.qout", "mol.qout.gz", "mol.qin"}
MatchesQout(name) == name \in {"mol.qout", "mol.qout.gz", "mol.qout.*"}

\* parent: the components of the path; parent.endswith(os.sep + r) holds when
\* the last component is r.
Parents == {<<"calc">>, <<"calc", "mol.qout.*">>, <<"calc", "opt">>}
EndsWithSep(parent, r) == Len(parent) >= 1 /\ parent[Len(parent)] = r

\* parent.glob(...): parent is a str, and str has no attribute glob.
str_glob(parent, pattern) == Raise([cls |-> "AttributeError", dir |-> None])

\* QChemDrone.get_valid_paths
QChemDrone_get_valid_paths(walk) ==
    LET parent == walk.parent
        subdirs == walk.subdirs
        task_names == {"mol.qout.*"}
    IN IF task_names \cap subdirs # {}
         THEN Return(<<parent>>)
       ELSE IF ~(\E r \in task_names : EndsWithSep(parent, r))
         THEN LET g == str_glob(parent, "mol.qout*")
              IN IF g.kind = "raise" THEN g
                 ELSE IF Len(g.value) > 0 THEN Return(<<parent>>) ELSE Return(<<>>)
       ELSE Return(<<>>)

\* os.walk tuples: subdirs and files are disjoint sets of names.
WalkTuples ==
    {[parent |-> p, subdirs |-> sd, files |-> fl] :
        p \in Parents,
        sd \in SUBSET SubdirNames,
        fl \in SUBSET FileEntryNames}

NoWalk == [parent |-> <<>>, subdirs |-> {}, files |-> {}]

DrInit ==
    /\ dr_kwargs \in KwargSets
    /\ dr_env \in [cwd : CalcDirs,
                   parse : [CalcDirs -> {"ok"} \cup ExceptionClasses \cup BaseOnlyClasses]]
    /\ dr_call = [method |-> "none", path |-> None, walk |-> NoWalk]
    /\ dr_out = NoOut
    /\ dr_log = <<>>

Assimilate ==
    /\ \E path \in CalcDirs \cup {None} :
         LET r == QChemDrone_assimilate(dr_kwargs, dr_env, path)
         IN /\ dr_call' = [method |-> "assimilate", path |-> path, walk |-> NoWalk]
            /\ dr_out' = r.out
            /\ dr_log' = r.log
    /\ UNCHANGED <<dr_kwargs, dr_env>>

GetValidPaths ==
    /\ \E walk \in WalkTuples :
         /\ dr_call' = [method |-> "get_valid_paths", path |-> None, walk |-> walk]
         /\ dr_out' = QChemDrone_get_valid_paths(walk)
         /\ dr_log' = <<>>
    /\ UNCHANGED <<dr_kwargs, dr_env>>

\* C6: get_valid_paths returns [parent] when the parent directory holds an
\* entry matching mol.qout*, [] otherwise, and does not raise.
C6_ValidPaths ==
    dr_call.method = "get_valid_paths" =>
        LET w == dr_call.walk
        IN /\ dr_out.kind = "return"
           /\ dr_out.value = IF \E e \in w.subdirs \cup w.files : MatchesQout(e)
                               THEN <<w.parent>> ELSE <<>>

\* The directory assimilate parses, and what its parse does.
AssimilatedDir == IF dr_call.path = None THEN dr_env.cwd ELSE dr_call.path
ParseOf(path) == TaskDoc_from_directory(dr_env, path, dr_kwargs)

\* C7 as stated: assimilate returns the document of the path (the working
\* directory for None) under the stored keyword arguments; whenever the
\* constructor raises, the error is logged and the same exception re-raised.
C7_LogsEveryRaise ==
    dr_call.method = "assimilate" =>
        LET r == ParseOf(AssimilatedDir)
        IN /\ dr_out = r
           /\ r.kind = "raise" => dr_log = <<[path |-> AssimilatedDir, exc |-> r.exc]>>

\* C7, amended: as above, the error being logged when the exception is an
\* Exception; any other BaseException propagates unlogged.  In no case is a
\* document returned for a failed parse or the exception swallowed.
C7_AssimilateOutcome ==
    dr_call.method = "assimilate" =>
        LET r == ParseOf(AssimilatedDir)
        IN /\ dr_out = r
           /\ r.kind = "return" =>
                /\ dr_out.value = <<[dir_name |-> AssimilatedDir, kwargs |-> dr_kwargs]>>
                /\ dr_log = <<>>
           /\ (r.kind = "raise" /\ IsException(r.exc)) =>
                dr_log = <<[path |-> AssimilatedDir, exc |-> r.exc]>>
           /\ (r.kind = "raise" /\ ~IsException(r.exc)) => dr_log = <<>>

\* A failed parse of the working directory, logged and re-raised.
C7_Witness ==
    /\ dr_call.method = "assimilate"
    /\ dr_call.path = None
    /\ dr_out.kind = "raise"
    /\ dr_out.exc = [cls |-> "ValueError", dir |-> dr_env.cwd]
    /\ Len(dr_log) = 1

-----------------------------------------------------------------------------
(***************************************************************************)
(* retrieve_structure_from_materials_project.                              *)
(***************************************************************************)

MPIds == {"mp-1", "mp-2"}

\* A structure: its lattice and sites (named by the record they come from)
\* and its site properties, a set of <<name, values>> pairs.
NoStructure == [lattice |-> <<>>, site_properties |-> {}]
SitePropertySets ==
    {{}, {<<"magmom", "5.0">>}, {<<"selective_dynamics", "T">>},
     {<<"magmom", "5.0">>, <<"selective_dynamics", "T">>}}

\* An MPID object and str() of it.
MPID(string) == [string |-> string]
Str(mpid) == mpid.string

\* The origins of a materials record: entries with a name and a task_id.
OriginEntries ==
    {[name |-> "structure", task_id |-> MPID("mp-10")],
     [name |-> "structure", task_id |-> MPID("mp-11")],
     [name |-> "energy", task_id |-> MPID("mp-12")]}
MaxOrigins == 2

\* What tasks.search and materials.search find for an identifier: a list of
\* records, empty when there is none.  Only mp-1 may be a material.
TaskResults(id) ==
    {<<>>} \cup {<<[structure |-> [lattice |-> <<"task", id>>, site_properties |-> sp]]>> :
                    sp \in SitePropertySets}
MaterialResults(id) ==
    IF id # "mp-1" THEN {<<>>}
    ELSE {<<>>} \cup
         {<<[structure |-> [lattice |-> <<"material", id>>, site_properties |-> sp],
             origins |-> og]>> :
             sp \in {{}, {<<"magmom", "5.0">>, <<"selective_dynamics", "T">>}},
             og \in SeqUpTo(OriginEntries, MaxOrigins)}

NoResponse == [output |-> NoStructure,
               stored_data |-> [task_id |-> None, database_version |-> None]]
MpReturn(r) == [kind |-> "return", response |-> r, exc |-> None]
MpRaise(cls) == [kind |-> "raise", response |-> NoResponse, exc |-> cls]
MpNoOut == [kind |-> "none", response |-> NoResponse, exc |-> None]

\* origins = {prop.name: prop for prop in doc.origins}; origins[name]:
\* the last entry of that name, a KeyError when there is none.
OriginsLookup(origins, name) ==
    LET ks == {k \in 1..Len(origins) : origins[k].name = name}
    IN IF ks = {} THEN [found |-> FALSE, task_id |-> MPID(None)]
       ELSE [found |-> TRUE,
             task_id |-> origins[CHOOSE k \in ks : \A j \in ks : j <= k].task_id]

\* Structure.remove_site_property
remove_site_property(structure, name) ==
    [structure EXCEPT !.site_properties = {sp \in @ : sp[1] # name}]

HasSiteProperty(structure, name) == \E sp \in structure.site_properties : sp[1] = name

\* The tail of the job: the reset of the magnetic moments and the Response.
\* A bug it could have: the moments removed whatever the flag.
MakeResponse_AlwaysReset(structure, task_id, database_version, reset_magnetic_moments) ==
    [output |-> remove_site_property(structure, "magmom"),
     stored_data |-> [task_id |-> task_id, database_version |-> database_version]]

MakeResponse(structure, task_id, database_version, reset_magnetic_moments) ==
    [output |-> IF reset_magnetic_moments /\ HasSiteProperty(structure, "magmom")
                  THEN remove_site_property(structure, "magmom")
                  ELSE structure,
     stored_data |-> [task_id |-> task_id, database_version |-> database_version]]

\* A bug the job could have: the identifier passed in stored as the task_id
\* in both branches.
retrieve_structure_StoresArgument(db, material_id_or_task_id, use_task_id, reset_magnetic_moments) ==
    LET found == IF use_task_id THEN db.tasks[material_id_or_task_id]
                 ELSE db.materials[material_id_or_task_id]
    IN IF ~db.mp_api_installed THEN MpRaise("ImportError")
       ELSE IF Len(found) = 0 THEN MpRaise("IndexError")
       ELSE IF ~use_task_id /\ ~OriginsLookup(found[1].origins, "structure").found
         THEN MpRaise("KeyError")
       ELSE MpReturn(MakeResponse(found[1].structure, material_id_or_task_id,
                                  db.database_version, reset_magnetic_moments))

\* retrieve_structure_from_materials_project
retrieve_structure_from_materials_project(db, material_id_or_task_id, use_task_id, reset_magnetic_moments) ==
    IF ~db.mp_api_installed THEN MpRaise("ImportError")
    ELSE IF use_task_id
      THEN LET found == db.tasks[material_id_or_task_id]
           IN IF Len(found) = 0 THEN MpRaise("IndexError")
              ELSE MpReturn(MakeResponse(found[1].structure, material_id_or_task_id,
                                         db.database_version, reset_magnetic_moments))
      ELSE LET found == db.materials[material_id_or_task_id]
           IN IF Len(found) = 0 THEN MpRaise("IndexError")
              ELSE LET o == OriginsLookup(found[1].origins, "structure")
                   IN IF ~o.found THEN MpRaise("KeyError")
                      ELSE MpReturn(MakeResponse(found[1].structure, Str(o.task_id),
                                                 db.database_version,
                                                 reset_magnetic_moments))

MpInit ==
    /\ \E t1 \in TaskResults("mp-1"), t2 \in TaskResults("mp-2"),
          m1 \in MaterialResults("mp-1"), m2 \in MaterialResults("mp-2"),
          inst \in BOOLEAN, v \in {"2023.11.1", "2025.6.9"} :
         mp_db = [tasks |-> [id \in MPIds |-> IF id = "mp-1" THEN t1 ELSE t2],
                  materials |-> [id \in MPIds |-> IF id = "mp-1" THEN m1 ELSE m2],
                  mp_api_installed |-> inst, database_version |-> v]
    /\ mp_args = [material_id_or_task_id |-> None, use_task_id |-> FALSE,
                  reset_magnetic_moments |-> FALSE]
    /\ mp_out = MpNoOut

RetrieveStructure ==
    /\ \E id \in MPIds, use_task_id \in BOOLEAN, reset \in BOOLEAN :
         /\ mp_args' = [material_id_or_task_id |-> id, use_task_id |-> use_task_id,
                        reset_magnetic_moments |-> reset]
         /\ mp_out' = retrieve_structure_from_materials_project(mp_db, id, use_task_id, reset)
    /\ UNCHANGED mp_db

\* The record the call reads, and its structure.
SourceRecords ==
    IF mp_args.use_task_id THEN mp_db.tasks[mp_args.material_id_or_task_id]
    ELSE mp_db.materials[mp_args.material_id_or_task_id]
SourceStructure == SourceRecords[1].structure

MpCalled == mp_out.kind # "none"
MpReturned == mp_out.kind = "return"

\* C8: the Response's stored_data holds the database version and the task_id
\* of the returned structure: with use_task_id the identifier passed in, the
\* structure being the tasks record's; without it the structure is the
\* materials record's and the task_id that of its origin entry named
\* "structure".
C8_StoredData ==
    MpReturned =>
        LET r == mp_out.response
        IN /\ r.stored_data.database_version = mp_db.database_version
           /\ Len(SourceRecords) >= 1
           /\ r.output.lattice = SourceStructure.lattice
           /\ mp_args.use_task_id =>
                /\ r.stored_data.task_id = mp_args.material_id_or_task_id
                /\ r.output.lattice = <<"task", mp_args.material_id_or_task_id>>
           /\ ~mp_args.use_task_id =>
                /\ r.output.lattice = <<"material", mp_args.material_id_or_task_id>>
                /\ \E k \in 1..Len(SourceRecords[1].origins) :
                     /\ SourceRecords[1].origins[k].name = "structure"
                     /\ r.stored_data.task_id = Str(SourceRecords[1].origins[k].task_id)

\* A materials lookup whose record has a structure origin and another one.
C8_Witness ==
    /\ MpReturned
    /\ ~mp_args.use_task_id
    /\ mp_out.response.stored_data.task_id = "mp-11"
    /\ \E k \in 1..Len(SourceRecords[1].origins) : SourceRecords[1].origins[k].name = "energy"

\* C9: with reset_magnetic_moments the returned structure has no magmom site
\* property (and is otherwise the retrieved one); without it the retrieved
\* structure is returned unchanged; a structure without magmom is returned
\* unchanged either way, and the flag never makes the call fail.
C9_MagneticMoments ==
    /\ MpReturned =>
         LET out == mp_out.response.output
         IN /\ mp_args.reset_magnetic_moments =>
                 /\ ~HasSiteProperty(out, "magmom")
                 /\ out.lattice = SourceStructure.lattice
                 /\ out.site_properties =
                        {sp \in SourceStructure.site_properties : sp[1] # "magmom"}
            /\ ~mp_args.reset_magnetic_moments => out = SourceStructure
            /\ ~HasSiteProperty(SourceStructure, "magmom") => out = SourceStructure
    /\ (/\ MpCalled
        /\ mp_db.mp_api_installed
        /\ Len(SourceRecords) >= 1
        /\ mp_args.use_task_id \/ OriginsLookup(SourceRecords[1].origins, "structure").found)
       => MpReturned

\* A reset on a structure that carries magnetic moments and another property.
C9_Witness ==
    /\ MpReturned
    /\ mp_args.reset_magnetic_moments
    /\ HasSiteProperty(SourceStructure, "magmom")
    /\ mp_out.response.output.site_properties = {<<"selective_dynamics", "T">>}

-----------------------------------------------------------------------------
(***************************************************************************)
(* FiniteDifferenceMaker.make.                                             *)
(***************************************************************************)

\* The directories of the distorted calculations and the largest length of
\* distorted_calc_dirs.
DistortedDirs == {"/d1", "/d2", "/d3"}
MaxDistorted == 3

\* A dir_name as jobs store it: host and path.
DirName(host, path) == [host |-> host, path |-> path]
\* atomate2.utils.path.strip_hostname
strip_hostname(dir_name) == dir_name.path

\* A wavefunction file: whether it is there, whether it is gzipped, and the
\* calculation whose wavefunction it holds.
Missing == [present |-> FALSE, gz |-> FALSE, wave |-> None]
File(gz, wave) == [present |-> TRUE, gz |-> gz, wave |-> wave]
\* A WSWQ file: the two wavefunctions whose overlap it holds.
NoWSWQ == [present |-> FALSE, ref |-> None, qqq |-> None]

\* atomate2.common.files.copy_files(dir, include_files=["WAVECAR.gz"],
\* prefix="qqq."): WAVECAR.gz of the directory copied to qqq.WAVECAR.gz; a
\* FileNotFoundError when the directory has none (allow_missing is False).
copy_files(cwd, remote, dir_name) ==
    IF ~remote[dir_name].present
      THEN [raised |-> TRUE, cwd |-> cwd]
      ELSE [raised |-> FALSE, cwd |-> [cwd EXCEPT !.qqq_WAVECAR_gz = remote[dir_name]]]

\* atomate2.common.files.gunzip_files(include_files="qqq.WAVECAR*",
\* allow_missing=True): qqq.WAVECAR.gz replaced by its content qqq.WAVECAR; a
\* FileExistsError when qqq.WAVECAR is there already (force is False).
gunzip_files(cwd) ==
    IF ~cwd.qqq_WAVECAR_gz.present THEN [raised |-> FALSE, cwd |-> cwd]
    ELSE IF cwd.qqq_WAVECAR.present THEN [raised |-> TRUE, cwd |-> cwd]
    ELSE [raised |-> FALSE,
          cwd |-> [cwd EXCEPT !.qqq_WAVECAR = File(FALSE, cwd.qqq_WAVECAR_gz.wave),
                              !.qqq_WAVECAR_gz = Missing]]

\* atomate2.common.files.rename_files({"qqq.WAVECAR": "WAVECAR.qqq"}): the
\* target replaced; a FileNotFoundError when qqq.WAVECAR is missing.
rename_files(cwd) ==
    IF ~cwd.qqq_WAVECAR.present THEN [raised |-> TRUE, cwd |-> cwd]
    ELSE [raised |-> FALSE,
          cwd |-> [cwd EXCEPT !.WAVECAR_qqq = cwd.qqq_WAVECAR, !.qqq_WAVECAR = Missing]]

\* atomate2.vasp.run.run_vasp with LWSWQ: WSWQ written from WAVECAR and
\* WAVECAR.qqq.
run_vasp(cwd) ==
    [cwd EXCEPT !.WSWQ = [present |-> TRUE, ref |-> cwd.WAVECAR.wave,
                          qqq |-> cwd.WAVECAR_qqq.wave]]

FdInit ==
    /\ fd_dirs \in SeqUpTo({DirName("host", d) : d \in DistortedDirs}, MaxDistorted)
    /\ fd_remote \in {[d \in DistortedDirs |-> IF d \in have THEN File(TRUE, d) ELSE Missing] :
                         have \in SUBSET DistortedDirs}
    /\ fd_cwd = [WAVECAR |-> Missing, qqq_WAVECAR_gz |-> Missing, qqq_WAVECAR |-> Missing,
                 WAVECAR_qqq |-> Missing, WSWQ |-> NoWSWQ,
                 WSWQ_i |-> [i \in 0..(MaxDistorted - 1) |-> NoWSWQ], gzipped |-> FALSE]
    /\ fd_i = 0
    /\ fd_pc = "start"
    /\ fd_runs = <<>>

\* d_dir_names = [strip_hostname(d) for d in distorted_calc_dirs]
d_dir_names == [k \in 1..Len(fd_dirs) |-> strip_hostname(fd_dirs[k])]

\* copy_vasp_outputs(ref_calc_dir, ["WAVECAR"]), the INCAR update and the
\* gunzip of the inputs: WAVECAR is the reference wavefunction, unzipped.
Prepare ==
    /\ fd_pc = "start"
    /\ fd_cwd' = [fd_cwd EXCEPT !.WAVECAR = File(FALSE, "ref")]
    /\ fd_pc' = "loop"
    /\ UNCHANGED <<fd_dirs, fd_remote, fd_i, fd_runs>>

\* for i, dir_name in enumerate(d_dir_names): copy_files(...)
CopyDistortedWavecar ==
    /\ fd_pc = "loop"
    /\ fd_i < Len(fd_dirs)
    /\ LET r == copy_files(fd_cwd, fd_remote, d_dir_names[fd_i + 1])
       IN /\ fd_cwd' = r.cwd
          /\ fd_pc' = IF r.raised THEN "failed" ELSE "gunzip"
    /\ UNCHANGED <<fd_dirs, fd_remote, fd_i, fd_runs>>

GunzipWavecar ==
    /\ fd_pc = "gunzip"
    /\ LET r == gunzip_files(fd_cwd)
       IN /\ fd_cwd' = r.cwd
          /\ fd_pc' = IF r.raised THEN "failed" ELSE "rename"
    /\ UNCHANGED <<fd_dirs, fd_remote, fd_i, fd_runs>>

\* A bug the loop could have: the rename left out, so that WAVECAR.qqq is
\* whatever an earlier iteration left.
RenameWavecar_Skipped ==
    /\ fd_pc = "rename"
    /\ fd_pc' = "run"
    /\ UNCHANGED <<fd_dirs, fd_remote, fd_cwd, fd_i, fd_runs>>

RenameWavecar ==
    /\ fd_pc = "rename"
    /\ LET r == rename_files(fd_cwd)
       IN /\ fd_cwd' = r.cwd
          /\ fd_pc' = IF r.raised THEN "failed" ELSE "run"
    /\ UNCHANGED <<fd_dirs, fd_remote, fd_i, fd_runs>>

\* run_vasp(**self.run_vasp_kwargs): the run is recorded with the loop index
\* and the wavefunctions it reads.
RunVasp ==
    /\ fd_pc = "run"
    /\ fd_runs' = Append(fd_runs, [i |-> fd_i, ref |-> fd_cwd.WAVECAR.wave,
                                   qqq |-> fd_cwd.WAVECAR_qqq.wave])
    /\ fd_cwd' = run_vasp(fd_cwd)
    /\ fd_pc' = "store"
    /\ UNCHANGED <<fd_dirs, fd_remote, fd_i>>

\* fc.copy(Path("WSWQ"), f"WSWQ.{i}"), and the next iteration.
StoreWSWQ ==
    /\ fd_pc = "store"
    /\ fd_cwd' = [fd_cwd EXCEPT !.WSWQ_i[fd_i] = fd_cwd.WSWQ]
    /\ fd_i' = fd_i + 1
    /\ fd_pc' = "loop"
    /\ UNCHANGED <<fd_dirs, fd_remote, fd_runs>>

\* After the loop: the document is read and the directory gzipped.
Finish ==
    /\ fd_pc = "loop"
    /\ fd_i = Len(fd_dirs)
    /\ fd_cwd' = [fd_cwd EXCEPT !.gzipped = TRUE]
    /\ fd_pc' = "done"
    /\ UNCHANGED <<fd_dirs, fd_remote, fd_i, fd_runs>>

\* The wavefunction of the k-th entry (from 0) of distorted_calc_dirs.
WaveOfEntry(k) == fd_remote[d_dir_names[k + 1]].wave

-----------------------------------------------------------------------------
(***************************************************************************)
(* The saved Lobster JSONs: LobsterTaskDocument.from_directory writes      *)
(* cba.json.gz and computational_data.json.gz, read_saved_json reads one   *)
(* key back (atomate2/lobster/schemas.py, as exercised by                  *)
(* tests/vasp/lobster/schemas/test_lobster.py).                            *)
(***************************************************************************)

\* The keys the test expects in each file, in the order of the test.
ExpectedCbaKeys ==
    <<"cation_anion_bonds", "all_bonds", "madelung_energies", "charges",
      "calc_quality_summary", "calc_quality_text", "dos", "lso_dos", "builder_meta">>

ExpectedComputationalDataKeys ==
    <<"builder_meta", "structure", "charges", "lobsterout", "lobsterin",
      "lobsterpy_data", "lobsterpy_text", "calc_quality_summary", "calc_quality_text",
      "strongest_bonds_icohp", "strongest_bonds_icoop", "strongest_bonds_icobi",
      "lobsterpy_data_cation_anion", "lobsterpy_text_cation_anion",
      "strongest_bonds_icohp_cation_anion", "strongest_bonds_icoop_cation_anion",
      "strongest_bonds_icobi_cation_anion", "dos", "lso_dos", "madelung_energies",
      "site_potentials", "gross_populations", "band_overlaps",
      "cohp_data", "coop_data", "cobi_data">>

SavedJsons == {"cba.json.gz", "computational_data.json.gz"}

ExpectedKeys(filename) ==
    IF filename = "cba.json.gz" THEN ExpectedCbaKeys ELSE ExpectedComputationalDataKeys

\* The tests of the key the test makes: "dos" in key, "lobsterpy_data" in key, ...
IsDosKey(k) == k \in {"dos", "lso_dos"}
IsBondsKey(k) == k \in {"all_bonds", "cation_anion_bonds"}
IsLobsterpyDataKey(k) == k \in {"lobsterpy_data", "lobsterpy_data_cation_anion"}
IsCoxxKey(k) == k \in {"cohp_data", "coop_data", "cobi_data"}

\* Python values.  An object of a pymatgen class, a plain JSON value, None, an
\* empty dict, a dict (a mapping that may carry an "@class" entry), the
\* lobsterpy analysis (with its cohp_plot_data: label -> Cohp) and the
\* per-bond-type dict of cba.json that wraps it.
Datas == {"data1", "data2"}
PlotLabels == {"As-Ga", "Ga-Ga"}
PyNone == [type |-> "null"]
EmptyDict == [type |-> "empty"]
Plain(k) == [type |-> "plain", data |-> k]
Obj(cls, data) == [type |-> "obj", class |-> cls, data |-> data]
Analysis(plots) ==
    [type |-> "model", cohp_plot_data |-> [l \in DOMAIN plots |-> Obj("Cohp", plots[l])]]
Bonds(plots) == [type |-> "bonds", lobsterpy_data |-> Analysis(plots)]

\* bool(value): None and {} are false.
IsSet(v) == v.type \notin {"null", "empty"}

\* as_dict of an object: a dict tagged with "@class"; the class of the value
\* itself is lost.
as_dict(o) == [type |-> "dict", class |-> o.class, data |-> o.data]

\* from_dict of a class: the object of that class with the dict's data.
from_dict(cls, d) == [type |-> "obj", class |-> cls, data |-> d.data]

\* jsanitize: objects become their as_dict, inside mappings too.
SanitizeAnalysis(m) ==
    [type |-> "dict", cohp_plot_data |-> [l \in DOMAIN m.cohp_plot_data |->
                                             as_dict(m.cohp_plot_data[l])]]

jsanitize(v) ==
    CASE v.type = "obj" -> as_dict(v)
      [] v.type = "model" -> SanitizeAnalysis(v)
      [] v.type = "bonds" -> [type |-> "dict", lobsterpy_data |-> SanitizeAnalysis(v.lobsterpy_data)]
      [] OTHER -> v

\* The calculation directory, as far as the saved entries depend on it.
PlotDatas == UNION {[ls -> Datas] : ls \in SUBSET PlotLabels}
LobsterDirs ==
    [dos : Datas, lso : BOOLEAN, ionic : BOOLEAN, cobicar : BOOLEAN, plots : PlotDatas]

\* The value from_directory computes for a key of either file.  The test
\* calls it with add_coxxcar_to_task_document = False: the COXXCAR objects are
\* read only for computational_data.json.
SavedField(dir, k) ==
    CASE k = "dos" -> Obj("LobsterCompleteDos", dir.dos)
      [] k = "lso_dos" -> IF dir.lso THEN Obj("LobsterCompleteDos", dir.dos) ELSE PyNone
      [] k = "structure" -> Obj("Structure", dir.dos)
      [] k = "all_bonds" -> Bonds(dir.plots)
      [] k = "cation_anion_bonds" -> IF dir.ionic THEN Bonds(dir.plots) ELSE EmptyDict
      [] k = "lobsterpy_data" -> Analysis(dir.plots)
      [] k = "lobsterpy_data_cation_anion" ->
            IF dir.ionic THEN Analysis(dir.plots) ELSE PyNone
      [] k \in {"cohp_data", "coop_data"} -> Obj("CompleteCohp", dir.dos)
      [] k = "cobi_data" -> IF dir.cobicar THEN Obj("CompleteCohp", dir.dos) ELSE PyNone
      [] OTHER -> Plain(k)

\* The file: gzip of the JSON list of one {key: value} dict per key.
NoFile == [gzip |-> <<>>, exists |-> FALSE]
gzip_write(entries) == [gzip |-> entries, exists |-> TRUE]
gzip_read(file) == file.gzip

SaveJson(dir, filename) ==
    LET keys == ExpectedKeys(filename)
    IN  gzip_write([i \in 1..Len(keys) |->
                       [key |-> keys[i], value |-> jsanitize(SavedField(dir, keys[i]))]])

\* LobsterTaskDocument.from_directory: the files it leaves in the directory.
from_directory(files, dir, save_cba_jsons, save_computational_data_jsons) ==
    [f \in SavedJsons |->
        CASE f = "cba.json.gz" /\ save_cba_jsons -> SaveJson(dir, f)
          [] f = "computational_data.json.gz" /\ save_computational_data_jsons ->
                SaveJson(dir, f)
          [] OTHER -> files[f]]

\* The conversion of one value to pymatgen objects: only dicts are converted.
DecodePlots(d) ==
    [d EXCEPT !.cohp_plot_data = [l \in DOMAIN @ |-> from_dict("Cohp", @[l])]]

ToPymatgen(k, v) ==
    IF v.type # "dict" THEN v
    ELSE CASE IsDosKey(k) -> from_dict("LobsterCompleteDos", v)
           [] IsCoxxKey(k) -> from_dict("CompleteCohp", v)
           [] k = "structure" -> from_dict("Structure", v)
           [] IsLobsterpyDataKey(k) -> DecodePlots(v)
           [] IsBondsKey(k) -> [v EXCEPT !.lobsterpy_data = DecodePlots(@)]
           [] OTHER -> v

read_saved_json_NeverConverts(file, pymatgen_objs, query) ==
    LET lobster_data == gzip_read(file)
        i == CHOOSE j \in 1..Len(lobster_data) : lobster_data[j].key = query
    IN  [key |-> query, value |-> lobster_data[i].value]

\* read_saved_json: the {query: value} dict, for a query the file holds.
read_saved_json(file, pymatgen_objs, query) ==
    LET lobster_data == gzip_read(file)
        i == CHOOSE j \in 1..Len(lobster_data) : lobster_data[j].key = query
        value == lobster_data[i].value
    IN  [key |-> query,
         value |-> IF pymatgen_objs THEN ToPymatgen(query, value) ELSE value]

NoRead == [called |-> FALSE, result |-> [key |-> None, value |-> PyNone]]

LbInit ==
    /\ lb_dir \in LobsterDirs
    /\ lb_files = [f \in SavedJsons |-> NoFile]
    /\ lb_call = [filename |-> None, pymatgen_objs |-> TRUE, query |-> None]
    /\ lb_out = NoRead

FromDirectory ==
    \E cba \in BOOLEAN, comp \in BOOLEAN :
        /\ lb_files' = from_directory(lb_files, lb_dir, cba, comp)
        /\ UNCHANGED <<lb_dir, lb_call, lb_out>>

\* The test reads every expected key of a file that has been written.
ReadSavedJson ==
    \E f \in SavedJsons, objs \in BOOLEAN :
        \E q \in Range(ExpectedKeys(f)) :
            /\ lb_files[f].exists
            /\ lb_call' = [filename |-> f, pymatgen_objs |-> objs, query |-> q]
            /\ lb_out' = [called |-> TRUE, result |-> read_saved_json(lb_files[f], objs, q)]
            /\ UNCHANGED <<lb_dir, lb_files>>

\* os.remove of a saved file, as the test does after reading.
RemoveSavedJson ==
    \E f \in SavedJsons :
        /\ lb_files[f].exists
        /\ lb_files' = [lb_files EXCEPT ![f] = NoFile]
        /\ UNCHANGED <<lb_dir, lb_call, lb_out>>

\* The cohp_plot_data of what was read for a bonds or a lobsterpy_data key.
PlotsOf(k, v) ==
    IF IsBondsKey(k) THEN v.lobsterpy_data.cohp_plot_data ELSE v.cohp_plot_data

-----------------------------------------------------------------------------
(***************************************************************************)
(* Running the flow of MP24DoubleRelaxStaticMaker.make.  The jobs run in   *)
(* any order that respects the references between them; a VASP job writes  *)
(* its files in its own directory, the cleanup job is                      *)
(* remove_workflow_files on the directories it was given.                  *)
(***************************************************************************)

JobUuids == {"relax1", "relax2", "static", "cleanup"}
VaspJobs == {"relax1", "relax2", "static"}

\* The directory a job runs in, and its output.dir_name ("host:/relax1").
JobDir(uuid) ==
    CASE uuid = "relax1" -> "/relax1"
      [] uuid = "relax2" -> "/relax2"
      [] OTHER -> "/static"
DirNameOutput(uuid) == <<"host", ":", JobDir(uuid)>>

ExPaths == JobDirs \X FileNames \X StoredExts

\* The jobs of a flow, nested flows flattened.
FlowUuids(flow) ==
    UNION {IF j.kind = "flow" THEN Range(j.jobs) ELSE {j.uuid} : j \in Range(flow.jobs)}

\* The jobs of the nested relax flow.
RelaxUuids(flow) ==
    UNION {IF j.kind = "flow" THEN Range(j.jobs) ELSE {} : j \in Range(flow.jobs)}

\* The job of the flow with this uuid (a job of the flow itself, not nested).
TopJob(flow, uuid) ==
    CHOOSE j \in Range(flow.jobs) : j.kind = "job" /\ j.uuid = uuid

\* The jobs whose output a job's arguments refer to.  Inside the double
\* relax flow the second relaxation takes the structure and the directory of
\* the first; the static job takes its structure and prev_dir; the cleanup
\* job takes its directories.
References(flow, uuid) ==
    CASE uuid = "relax1" -> {}
      [] uuid = "relax2" -> {"relax1"} \cap FlowUuids(flow)
      [] uuid = "static" ->
            {TopJob(flow, uuid).structure.uuid, TopJob(flow, uuid).prev_dir.uuid}
      [] OTHER ->
            {TopJob(flow, uuid).directories[k].uuid :
                k \in 1..Len(TopJob(flow, uuid).directories)}

\* A job can run once every job it refers to has completed.
Ready(flow, state, uuid) ==
    /\ uuid \in FlowUuids(flow)
    /\ state[uuid] = "waiting"
    /\ \A r \in References(flow, uuid) : state[r] = "done"

\* copy_vasp_kwargs = {"additional_vasp_files": ("WAVECAR", "CHGCAR")} of the
\* second relaxation and of the static job: the files they need from the
\* directory of the job before them.  The first relaxation has no such job.
AdditionalVaspFiles == {"WAVECAR", "CHGCAR"}
CopiesFrom(flow, uuid) ==
    CASE uuid = "static" -> {"relax2"}
      [] uuid = "relax2" -> {"relax1"} \cap FlowUuids(flow)
      [] OTHER -> {}

\* A file of a directory under any stored extension.
HasFile(f, job_dir, name) ==
    \E x \in StoredExts : IsFile(f, <<job_dir, name, x>>)

CanCopy(flow, f, uuid) ==
    \A p \in CopiesFrom(flow, uuid), n \in AdditionalVaspFiles : HasFile(f, JobDir(p), n)

\* What a VASP run leaves of each file: nothing, the file, or the file gzipped.
Written == [FileNames -> {"absent", "", ".gz"}]
WriteFiles(f, job_dir, w) ==
    [p \in DOMAIN f |->
        IF p[1] # job_dir THEN f[p]
        ELSE IF w[p[2]] = p[3] THEN "file" ELSE "absent"]

ExStart(flow) ==
    /\ ex_flow = flow
    /\ ex_state = [u \in JobUuids |-> IF u \in FlowUuids(flow) THEN "waiting" ELSE "none"]
    /\ ex_fs = [p \in ExPaths |-> "absent"]
    /\ ex_copied = [u \in VaspJobs |-> {}]
    /\ ex_removed = <<>>

ExInit ==
    \E self \in MP24Makers, structure \in Structures :
        ExStart(MP24_make(self, structure, None).flow)

\* A VASP job that completes: it has copied the files it needs from the job
\* before it and has written its own (a copied file stays when the run
\* writes none of that name).
RunVaspJob ==
    \E u \in VaspJobs, w \in Written :
        /\ Ready(ex_flow, ex_state, u)
        /\ CanCopy(ex_flow, ex_fs, u)
        /\ LET copied == IF CopiesFrom(ex_flow, u) = {} THEN {} ELSE AdditionalVaspFiles
               w1 == [n \in FileNames |-> IF w[n] = "absent" /\ n \in copied THEN "" ELSE w[n]]
           IN  /\ ex_copied' = [ex_copied EXCEPT ![u] = copied]
               /\ ex_fs' = WriteFiles(ex_fs, JobDir(u), w1)
        /\ ex_state' = [ex_state EXCEPT ![u] = "done"]
        /\ UNCHANGED <<ex_flow, ex_removed>>

\* A VASP job that fails: a needed file is missing, or VASP fails.  Nothing
\* that refers to it will run.
FailVaspJob ==
    \E u \in VaspJobs :
        /\ Ready(ex_flow, ex_state, u)
        /\ ex_state' = [ex_state EXCEPT ![u] = "failed"]
        /\ UNCHANGED <<ex_flow, ex_fs, ex_copied, ex_removed>>

\* The cleanup job: remove_workflow_files on the dir_name outputs it refers to.
RunCleanup ==
    /\ Ready(ex_flow, ex_state, "cleanup")
    /\ LET job == TopJob(ex_flow, "cleanup")
           directories == [k \in 1..Len(job.directories) |->
                              DirNameOutput(job.directories[k].uuid)]
           out == remove_workflow_files(ex_fs, directories, job.file_names, job.allow_zpath)
       IN  /\ ex_fs' = out.fs
           /\ ex_removed' = out.removed
    /\ ex_state' = [ex_state EXCEPT !["cleanup"] = "done"]
    /\ UNCHANGED <<ex_flow, ex_copied>>

\* Every relaxation of the flow and the static calculation have completed,
\* and the static job has copied WAVECAR and CHGCAR from the relax directory.
AllCalculationsCompleted ==
    /\ \A u \in RelaxUuids(ex_flow) \cup {"static"} : ex_state[u] = "done"
    /\ AdditionalVaspFiles \subseteq ex_copied["static"]

\* A step that removes a file.
RemovesAFile ==
    \E p \in ExPaths : ex_fs[p] = "file" /\ ex_fs'[p] = "absent"

-----------------------------------------------------------------------------
(***************************************************************************)
(* The specifications: one per program, the other programs at rest.        *)
(***************************************************************************)

MkIdle ==
    /\ mk_self = [cls |-> "MP24DoubleRelaxStaticMaker", name |-> "MP24 r2SCAN workflow",
                  relax_maker |-> [name |-> "MP24 double relax",
                                   relax_maker1 |-> "MP24PreRelaxMaker"],
                  static_maker |-> "MP24StaticMaker", clean_files |-> DefaultCleanFiles]
    /\ mk_args = [self |-> mk_self, structure |-> None, prev_dir |-> None]
    /\ mk_flow = NoFlow

RmIdle ==
    /\ fs = [p \in Paths |-> "absent"]
    /\ fs0 = fs
    /\ rm_args = [directories |-> <<>>, file_names |-> <<>>, allow_zpath |-> TRUE]
    /\ rm_ret = [called |-> FALSE, removed |-> <<>>]

DrIdle ==
    /\ dr_kwargs = "{}"
    /\ dr_env = [cwd |-> "/calc1", parse |-> [d \in CalcDirs |-> "ok"]]
    /\ dr_call = [method |-> "none", path |-> None, walk |-> NoWalk]
    /\ dr_out = NoOut
    /\ dr_log = <<>>

MpIdle ==
    /\ mp_db = [tasks |-> [id \in MPIds |-> <<>>], materials |-> [id \in MPIds |-> <<>>],
                mp_api_installed |-> TRUE, database_version |-> "2025.6.9"]
    /\ mp_args = [material_id_or_task_id |-> None, use_task_id |-> FALSE,
                  reset_magnetic_moments |-> FALSE]
    /\ mp_out = MpNoOut

FdIdle ==
    /\ fd_dirs = <<>>
    /\ fd_remote = [d \in DistortedDirs |-> Missing]
    /\ fd_cwd = [WAVECAR |-> Missing, qqq_WAVECAR_gz |-> Missing, qqq_WAVECAR |-> Missing,
                 WAVECAR_qqq |-> Missing, WSWQ |-> NoWSWQ,
                 WSWQ_i |-> [i \in 0..(MaxDistorted - 1) |-> NoWSWQ], gzipped |-> FALSE]
    /\ fd_i = 0
    /\ fd_pc = "start"
    /\ fd_runs = <<>>

LbIdle ==
    /\ lb_dir = [dos |-> "data1", lso |-> FALSE, ionic |-> FALSE, cobicar |-> FALSE, plots |-> <<>>]
    /\ lb_files = [f \in SavedJsons |-> NoFile]
    /\ lb_call = [filename |-> None, pymatgen_objs |-> TRUE, query |-> None]
    /\ lb_out = NoRead

ExIdle == ExStart([jobs |-> <<>>, output |-> Ref("static"), name |-> "no flow"])

\* The flow makers.
InitMakers == MkInit /\ RmIdle /\ DrIdle /\ MpIdle /\ FdIdle /\ LbIdle /\ ExIdle
NextMakers ==
    \/ MakeMPGGA /\ UNCHANGED <<rmVars, drVars, mpVars, fdVars, lbVars, exVars>>
    \/ MakeMPMetaGGA /\ UNCHANGED <<rmVars, drVars, mpVars, fdVars, lbVars, exVars>>
    \/ MakeMP24 /\ UNCHANGED <<rmVars, drVars, mpVars, fdVars, lbVars, exVars>>
SpecMakers == InitMakers /\ [][NextMakers]_vars

\* remove_workflow_files.
InitRemove == MkIdle /\ RmInit /\ DrIdle /\ MpIdle /\ FdIdle /\ LbIdle /\ ExIdle
NextRemove == RemoveWorkflowFiles /\ UNCHANGED <<mkVars, drVars, mpVars, fdVars, lbVars, exVars>>
SpecRemove == InitRemove /\ [][NextRemove]_vars

\* The QChem drone.
InitDrone == MkIdle /\ RmIdle /\ DrInit /\ MpIdle /\ FdIdle /\ LbIdle /\ ExIdle
NextDrone ==
    \/ Assimilate /\ UNCHANGED <<mkVars, rmVars, mpVars, fdVars, lbVars, exVars>>
    \/ GetValidPaths /\ UNCHANGED <<mkVars, rmVars, mpVars, fdVars, lbVars, exVars>>
SpecDrone == InitDrone /\ [][NextDrone]_vars

\* retrieve_structure_from_materials_project.
InitMP == MkIdle /\ RmIdle /\ DrIdle /\ MpInit /\ FdIdle /\ LbIdle /\ ExIdle
NextMP == RetrieveStructure /\ UNCHANGED <<mkVars, rmVars, drVars, fdVars, lbVars, exVars>>
SpecMP == InitMP /\ [][NextMP]_vars

\* FiniteDifferenceMaker.make.
InitFD == MkIdle /\ RmIdle /\ DrIdle /\ MpIdle /\ FdInit /\ LbIdle /\ ExIdle
NextFD ==
    \/ Prepare /\ UNCHANGED <<mkVars, rmVars, drVars, mpVars, lbVars, exVars>>
    \/ CopyDistortedWavecar /\ UNCHANGED <<mkVars, rmVars, drVars, mpVars, lbVars, exVars>>
    \/ GunzipWavecar /\ UNCHANGED <<mkVars, rmVars, drVars, mpVars, lbVars, exVars>>
    \/ RenameWavecar /\ UNCHANGED <<mkVars, rmVars, drVars, mpVars, lbVars, exVars>>
    \/ RunVasp /\ UNCHANGED <<mkVars, rmVars, drVars, mpVars, lbVars, exVars>>
    \/ StoreWSWQ /\ UNCHANGED <<mkVars, rmVars, drVars, mpVars, lbVars, exVars>>
    \/ Finish /\ UNCHANGED <<mkVars, rmVars, drVars, mpVars, lbVars, exVars>>
SpecFD == InitFD /\ [][NextFD]_vars

\* The saved Lobster JSONs.
InitLobster == MkIdle /\ RmIdle /\ DrIdle /\ MpIdle /\ FdIdle /\ LbInit /\ ExIdle
NextLobster ==
    \/ FromDirectory /\ UNCHANGED <<mkVars, rmVars, drVars, mpVars, fdVars, exVars>>
    \/ ReadSavedJson /\ UNCHANGED <<mkVars, rmVars, drVars, mpVars, fdVars, exVars>>
    \/ RemoveSavedJson /\ UNCHANGED <<mkVars, rmVars, drVars, mpVars, fdVars, exVars>>
SpecLobster == InitLobster /\ [][NextLobster]_vars

\* Running the MP24 flow.
InitExec == MkIdle /\ RmIdle /\ DrIdle /\ MpIdle /\ FdIdle /\ LbIdle /\ ExInit
NextExec ==
    \/ RunVaspJob /\ UNCHANGED <<mkVars, rmVars, drVars, mpVars, fdVars, lbVars>>
    \/ FailVaspJob /\ UNCHANGED <<mkVars, rmVars, drVars, mpVars, fdVars, lbVars>>
    \/ RunCleanup /\ UNCHANGED <<mkVars, rmVars, drVars, mpVars, fdVars, lbVars>>
SpecExec == InitExec /\ [][NextExec]_vars

=============================================================================
